---- MODULE Spec2Model ----
(***************************************************************************)
(* The adaptive-retry execution controller (PerfAnalyzer.run) and the      *)
(* benchmark driver (offline_performance) of model_navigator.              *)
(*                                                                         *)
(* A text is a sequence of lines.  A line is one of three kinds: the two   *)
(* diagnostics of perf_analyzer that report an unstable measurement, and   *)
(* any other line.  str.find is computed on that sequence: the result is   *)
(* the 0-based position of the first occurrence, or -1.                    *)
(***************************************************************************)
EXTENDS Integers, Sequences, FiniteSets, TLC

\* ------------------------------------------------------------- constants
MAX_INTERVAL_CHANGES == 10
COUNT_INTERVAL_DELTA == 50
TIME_INTERVAL_DELTA == 2000

\* exit status of timeout(1) when the command ran out of time
TIMEOUT_EXIT_STATUS == 124

\* ---------------------------------------------------------------- bounds
\* lines one attempt's process may emit, and (streamed capture) lines the
\* accumulated output may hold before the processes fall silent
MaxOutputLen == 3
\* length of the batch-size list handed to offline_performance
MaxBatches == 3
\* sample rows in a scratch metrics file
MaxRows == 2

\* ----------------------------------------------------------------- texts
StableLine == "Failed to obtain stable measurement"
WindowLine == "Please use a larger time window"
OtherLine == "other"
Lines == {StableLine, WindowLine, OtherLine}
Channels == {"stdout", "stderr"}

\* str.find(needle): lowest index where needle occurs, -1 when absent
RECURSIVE FindFrom(_, _, _)
FindFrom(text, needle, k) ==
    IF k > Len(text) THEN -1
    ELSE IF text[k] = needle THEN k - 1
    ELSE FindFrom(text, needle, k + 1)

Find(text, needle) == FindFrom(text, needle, 1)

\* `needle in text`
Contains(text, needle) == \E k \in 1..Len(text) : text[k] = needle

\* the unstable-measurement condition of a captured text, as the
\* specification words it: one of the two diagnostics occurs in it
UnstableCondition(text) ==
    Contains(text, StableLine) \/ Contains(text, WindowLine)

\* ----------------------------------------------------------- the config
\* the three keys of PerfAnalyzerConfig the controller reads or rewrites
NoneValue == "None"
MeasurementModes == {NoneValue, "count_windows", "time_windows"}
InitialCounts == {50}
InitialIntervals == {5000, 10000}

Configs ==
    [mode : MeasurementModes, count : InitialCounts, interval : InitialIntervals]

\* PerfAnalyzer._faild_with_measruement_inverval:
\*   output.find(A) or output.find(B) != -1
\* `or` yields its left operand when that is truthy (any integer but 0) and
\* otherwise its right operand; != binds tighter than `or`.
_faild_with_measruement_inverval(output) ==
    IF Find(output, StableLine) # 0
    THEN TRUE
    ELSE Find(output, WindowLine) # -1

\* PerfAnalyzer._increase_request_count
_increase_request_count(config) ==
    [config EXCEPT !.count = @ + COUNT_INTERVAL_DELTA]

\* an adaptation that sets the window to the delta instead of adding it
SetTimeIntervalToDelta(config) ==
    [config EXCEPT !.interval = TIME_INTERVAL_DELTA]

\* PerfAnalyzer._increase_time_interval
_increase_time_interval(config) ==
    [config EXCEPT !.interval = @ + TIME_INTERVAL_DELTA]

\* the branch of run() taken for a retryable CalledProcessError
AdaptConfig(config) ==
    IF config.mode = NoneValue \/ config.mode = "count_windows"
    THEN _increase_request_count(config)
    ELSE _increase_time_interval(config)

\* ------------------------------------------------------------- variables
VARIABLES
    entry,          \* "run": a caller built PerfAnalyzer(config, timeout, stream)
                    \* "sweep": offline_performance was called
    _config,        \* PerfAnalyzer._config
    _output,        \* PerfAnalyzer._output: [none, text]
    _stream_output, \* PerfAnalyzer._stream_output
    pc,             \* position of run(): idle, loop, wait, returned, raised
    attempts,       \* iterations of the for loop started so far
    command,        \* the parameters rendered into the last command line
    captured,       \* text captured from the running process so far
    attempt,        \* the attempt that ended last
    exception,      \* what left run(): [type, kind]
    stable_only,    \* every attempt so far failed with the unstable condition
    output_result,  \* what output() gave when last called
    batch_sizes,    \* offline_performance: the list to sweep
    measurement_window, \* offline_performance: the measurement window
    params,         \* offline_performance: the parameters of this iteration
    sweep_pc,       \* offline_performance: none, loop, crashed, done
    batch_index,    \* offline_performance: iterations of the for loop started
    results,        \* offline_performance: the results list
    report,         \* rows handed to save_results
    saves,          \* calls of save_results
    shows,          \* calls of show_results
    exit_status,    \* exit status of the process running the sweep
    scratch,        \* the scratch metrics file: [exists, header, rows]
    initial_config, \* the configuration as it was handed to __init__
    processes       \* spawned processes that have not ended

vars == <<entry, _config, _output, _stream_output, pc, attempts, command,
          captured, attempt, exception, stable_only, output_result,
          batch_sizes, measurement_window, params, sweep_pc, batch_index,
          results, report, saves, shows, exit_status, scratch,
          initial_config, processes>>

ctl_vars == <<_config, _output, _stream_output, pc, attempts, command,
              captured, attempt, exception, stable_only, output_result,
              initial_config, processes>>

sweep_vars == <<batch_sizes, measurement_window, params, sweep_pc,
                batch_index, results, report, saves, shows, exit_status,
                scratch>>


\* ----------------------------------------------------- values of the state
NoOutput == [none |-> TRUE, text |-> <<>>]
NoCommand == [mode |-> NoneValue, count |-> 0, interval |-> 0]
NoAttempt == [how |-> "none", status |-> 0, text |-> <<>>, output |-> <<>>]
NoException == [type |-> "none", kind |-> "none", returncode |-> 0, output |-> <<>>]
NotCalled == [called |-> FALSE, raised |-> FALSE, text |-> <<>>]

\* exit statuses of a process that ended by itself: success, an error, a signal
ExitStatuses == {0, 1, -9}

\* run(): the command line is rendered from the configuration as it is now
Render(config) ==
    [mode |-> config.mode, count |-> config.count, interval |-> config.interval]

\* PerfAnalyzer.__init__(self, config, timeout, stream_output=False): the
\* parameters without a default must be supplied
InitRequired == {"config", "timeout"}

PerfAnalyzer__init__(supplied) ==
    IF InitRequired \subseteq supplied THEN "constructed" ELSE "TypeError"

\* what a direct caller and what offline_performance hand to the constructor
DirectCallArgs == {"config", "timeout", "stream_output"}
DriverCallArgs == {"config", "stream_output"}

\* PerfAnalyzer.output
output(stored) ==
    IF ~stored.none /\ stored.text # <<>>
    THEN [called |-> TRUE, raised |-> FALSE, text |-> stored.text]
    ELSE [called |-> TRUE, raised |-> TRUE, text |-> <<>>]

\* ------------------------------------------------ offline_performance input
BatchSizes == {2, 4, 8}
MeasurementWindows == {5000, 10000}

BatchLists == UNION {[1..n -> BatchSizes] : n \in 0..MaxBatches}

NoParams == [batch_size |-> 0, measurement_interval |-> 0, latency_report_file |-> 0]

\* the parameters offline_performance seeds for one batch size that the
\* claims speak of; the scratch file is named after the batch size
BuildParams(batch_size, window) ==
    [batch_size |-> batch_size,
     measurement_interval |-> window,
     latency_report_file |-> batch_size]

\* sort_results: rows in ascending order of batch size
RECURSIVE InsertRow(_, _)
InsertRow(row, rows) ==
    IF rows = <<>> THEN <<row>>
    ELSE IF row["batch_size"] < Head(rows)["batch_size"] THEN <<row>> \o rows
    ELSE <<Head(rows)>> \o InsertRow(row, Tail(rows))

RECURSIVE sort_results(_)
sort_results(rows) ==
    IF rows = <<>> THEN <<>>
    ELSE InsertRow(rows[Len(rows)], sort_results(SubSeq(rows, 1, Len(rows) - 1)))


\* ------------------------------------------------- the scratch metrics file
\* avg_sum_fields of calculate_average_latency
AvgSumFields ==
    <<"Client Send", "Network+Server Send/Recv", "Server Queue",
      "Server Compute", "Server Compute Input", "Server Compute Infer",
      "Server Compute Output", "Client Recv">>

\* the columns a file of the model may have, in the order of its header: two
\* latency components, and a summary column
CsvColumns == <<"Client Send", "Server Queue", "Inferences/Second">>

\* a cell is text: a sequence of decimal digits ("5", "10")
CellValues == {<<5>>, <<1, 0>>}

\* int(text) of a cell of decimal digits
RECURSIVE int(_)
int(cell) ==
    IF cell = <<>> THEN 0
    ELSE 10 * int(SubSeq(cell, 1, Len(cell) - 1)) + cell[Len(cell)]

\* the headers: the columns of CsvColumns at the positions chosen, in order
HeaderOf(chosen) == SelectSeq(CsvColumns, LAMBDA c : c \in chosen)

Headers ==
    {HeaderOf(chosen) :
        chosen \in (SUBSET {CsvColumns[k] : k \in 1..Len(CsvColumns)}) \ {{}}}

\* the files: no file, an empty file, or a header line and up to MaxRows
\* lines of as many cells as the header has names
MissingFile == [exists |-> FALSE, header |-> <<>>, rows |-> <<>>]
EmptyFile == [exists |-> TRUE, header |-> <<>>, rows |-> <<>>]

ScratchFiles ==
    {MissingFile, EmptyFile}
    \cup UNION {
           {[exists |-> TRUE, header |-> h, rows |-> rs] :
               rs \in UNION {[1..n -> [1..Len(h) -> CellValues]] : n \in 0..MaxRows}}
           : h \in Headers}

\* csv.DictReader: each line after the header as a mapping from the names of
\* the header to the cells of the line
DictReader(file) ==
    [k \in 1..Len(file.rows) |->
        [c \in {file.header[j] : j \in 1..Len(file.header)} |->
            file.rows[k][CHOOSE j \in 1..Len(file.header) : file.header[j] = c]]]

\* sum([int(r.get(f, 0)) for f in avg_sum_fields]), field by field
RECURSIVE SumFields(_, _, _)
SumFields(r, fields, k) ==
    IF k > Len(fields) THEN 0
    ELSE (IF fields[k] \in DOMAIN r THEN int(r[fields[k]]) ELSE 0)
         + SumFields(r, fields, k + 1)

\* a sum that leaves the first of the fields out
SumWithoutFirstField(r) == SumFields(r, AvgSumFields, 2)

\* calculate_average_latency
calculate_average_latency(r) == SumFields(r, AvgSumFields, 1)

\* {**r, **row, "avg latency": avg_latency}: the value read first is kept
MergeRowKeepFirst(row, r, avg_latency) ==
    [c \in DOMAIN row \cup DOMAIN r \cup {"avg latency"} |->
        IF c = "avg latency" THEN avg_latency
        ELSE IF c \in DOMAIN row THEN row[c]
        ELSE r[c]]

\* {**row, **r, "avg latency": avg_latency}
MergeRow(row, r, avg_latency) ==
    [c \in DOMAIN row \cup DOMAIN r \cup {"avg latency"} |->
        IF c = "avg latency" THEN avg_latency
        ELSE IF c \in DOMAIN r THEN r[c]
        ELSE row[c]]

\* the `for r in reader` loop of update_performance_data, from line k on
RECURSIVE ReadRows(_, _, _)
ReadRows(row, readrows, k) ==
    IF k > Len(readrows) THEN row
    ELSE ReadRows(MergeRow(row, readrows[k],
                           calculate_average_latency(readrows[k])),
                  readrows, k + 1)

\* update_performance_data, for a file that can be opened: the list with the
\* row appended
update_performance_data(rows, batch_size, file) ==
    Append(rows, ReadRows([c \in {"batch_size"} |-> batch_size],
                          DictReader(file), 1))

\* a results list as update_performance_data may find it
EarlierResults ==
    {<<>>, <<[c \in {"batch_size", "avg latency"} |->
                IF c = "batch_size" THEN 8 ELSE 15]>>}

\* ------------------------------------------------------------------ Init
NoExitStatus == -1

\* a caller constructs PerfAnalyzer(config, timeout, stream_output)
InitRun ==
    /\ entry = "run"
    /\ PerfAnalyzer__init__(DirectCallArgs) = "constructed"
    /\ _config \in Configs
    /\ _stream_output \in BOOLEAN
    /\ _output = NoOutput
    /\ pc = "idle"
    /\ batch_sizes = <<>>
    /\ measurement_window = 0
    /\ sweep_pc = "none"
    /\ params = NoParams
    /\ results = <<>>
    /\ scratch = MissingFile

\* a caller calls offline_performance(model_name, batch_sizes, result_path, ...)
InitSweep ==
    /\ entry = "sweep"
    /\ _config = NoCommand
    /\ _stream_output = TRUE
    /\ _output = NoOutput
    /\ pc = "none"
    /\ batch_sizes \in BatchLists
    /\ measurement_window \in MeasurementWindows
    /\ sweep_pc = "loop"
    /\ params = NoParams
    /\ results = <<>>
    /\ scratch = MissingFile

\* a caller calls update_performance_data(results, batch_size, file)
InitUpdate ==
    /\ entry = "update"
    /\ _config = NoCommand
    /\ _stream_output = TRUE
    /\ _output = NoOutput
    /\ pc = "none"
    /\ batch_sizes = <<>>
    /\ measurement_window = 0
    /\ sweep_pc = "update"
    /\ \E b \in BatchSizes : params = BuildParams(b, 0)
    /\ results \in EarlierResults
    /\ scratch \in ScratchFiles

Init ==
    /\ (InitRun \/ InitSweep \/ InitUpdate)
    /\ attempts = 0
    /\ command = NoCommand
    /\ captured = <<>>
    /\ attempt = NoAttempt
    /\ exception = NoException
    /\ stable_only = TRUE
    /\ output_result = NotCalled
    /\ initial_config = _config
    /\ processes = 0
    /\ batch_index = 0
    /\ report = <<>>
    /\ saves = 0
    /\ shows = 0
    /\ exit_status = NoExitStatus

\* ------------------------------------------------------- PerfAnalyzer.run
\* run() is entered: streamed capture starts from the empty text
Run ==
    /\ pc = "idle"
    /\ pc' = "loop"
    /\ _output' = IF _stream_output THEN [none |-> FALSE, text |-> <<>>] ELSE _output
    /\ UNCHANGED <<entry, initial_config, processes, _config, _stream_output, attempts, command, captured,
                   attempt, exception, stable_only, output_result>>
    /\ UNCHANGED sweep_vars

\* one iteration of `for _ in range(MAX_INTERVAL_CHANGES)` starts: the
\* command is rendered and the process is spawned
Invoke ==
    /\ pc = "loop"
    /\ attempts < MAX_INTERVAL_CHANGES
    /\ attempts' = attempts + 1
    /\ command' = Render(_config)
    /\ captured' = <<>>
    /\ attempt' = NoAttempt
    /\ processes' = processes + 1
    /\ pc' = "wait"
    /\ UNCHANGED <<entry, initial_config, _config, _output, _stream_output, exception,
                   stable_only, output_result>>
    /\ UNCHANGED sweep_vars

\* the process writes a line to its standard output or its standard error.
\* check_output (stderr=STDOUT) keeps both until the process ends;
\* _run_with_stream opens a pipe for the standard output alone and appends
\* each line read from it to _output; the standard error goes to the terminal
EmitLine(line, channel) ==
    /\ pc = "wait"
    /\ IF _stream_output /\ channel = "stderr"
       THEN UNCHANGED <<captured, _output>>
       ELSE /\ Len(captured) < MaxOutputLen
            /\ _stream_output => Len(_output.text) < MaxOutputLen
            /\ captured' = Append(captured, line)
            /\ _output' = IF _stream_output
                          THEN [_output EXCEPT !.text = Append(@, line)]
                          ELSE _output
    /\ UNCHANGED <<entry, initial_config, processes, _config, _stream_output, pc, attempts, command,
                   attempt, exception, stable_only, output_result>>
    /\ UNCHANGED sweep_vars

\* the `except CalledProcessError as e` clause of run(), with what follows it:
\* the next iteration, or the raise after the loop when this was the last one
HandleCalledProcessError(returncode, e_output) ==
    IF _faild_with_measruement_inverval(e_output)
    THEN /\ _config' = AdaptConfig(_config)
         /\ IF attempts < MAX_INTERVAL_CHANGES
            THEN /\ pc' = "loop"
                 /\ exception' = exception
            ELSE /\ pc' = "raised"
                 /\ exception' = [type |-> "ModelNavigatorException",
                                  kind |-> "exhausted",
                                  returncode |-> 0,
                                  output |-> <<>>]
    ELSE /\ _config' = _config
         /\ pc' = "raised"
         /\ exception' = [type |-> "ModelNavigatorException",
                          kind |-> "process_failed",
                          returncode |-> returncode,
                          output |-> e_output]

\* a timeout that leaves the process running
LeaveRunning(running) == running

\* the timeout of an attempt: check_output(timeout=...) kills the process and
\* waits for it before TimeoutExpired is raised; timeout(1) signals the
\* process, waits for it, and only then exits with status 124
KillOnTimeout(running) == running - 1

\* the text the CalledProcessError carries: check_output gives the text of
\* this process, _run_with_stream gives self._output
ErrorOutput == IF _stream_output THEN _output.text ELSE captured

\* the process ends by itself with an exit status: check_output returns or
\* raises once it has waited for the process, the loop of _run_with_stream is
\* left once poll() gives the status of the process
ProcessExit(status) ==
    /\ pc = "wait"
    /\ processes' = processes - 1
    /\ attempt' = [how |-> "exit", status |-> status, text |-> captured,
                   output |-> ErrorOutput]
    /\ stable_only' = (stable_only /\ status # 0 /\ UnstableCondition(captured))
    /\ IF status = 0
       THEN /\ _output' = IF _stream_output
                          THEN _output
                          ELSE [none |-> FALSE, text |-> captured]
            /\ pc' = "returned"
            /\ UNCHANGED <<_config, exception>>
       ELSE /\ _output' = _output
            /\ HandleCalledProcessError(status, ErrorOutput)
    /\ UNCHANGED <<entry, initial_config, _stream_output, attempts, command, captured,
                   output_result>>
    /\ UNCHANGED sweep_vars

\* the process runs out of the per-attempt timeout.  check_output kills it and
\* raises TimeoutExpired, which no clause of run() handles.  Under streamed
\* capture timeout(1) ends it and exits with status 124, which
\* _run_with_stream reports as a CalledProcessError like any other status.
ProcessTimeout ==
    /\ pc = "wait"
    /\ processes' = KillOnTimeout(processes)
    /\ stable_only' = FALSE
    /\ _output' = _output
    /\ IF _stream_output
       THEN /\ attempt' = [how |-> "timeout", status |-> TIMEOUT_EXIT_STATUS,
                           text |-> captured, output |-> ErrorOutput]
            /\ HandleCalledProcessError(TIMEOUT_EXIT_STATUS, ErrorOutput)
       ELSE /\ attempt' = [how |-> "timeout", status |-> -9,
                           text |-> captured, output |-> captured]
            /\ pc' = "raised"
            /\ exception' = [type |-> "TimeoutExpired", kind |-> "timeout",
                             returncode |-> 0, output |-> captured]
            /\ _config' = _config
    /\ UNCHANGED <<entry, initial_config, _stream_output, attempts, command, captured,
                   output_result>>
    /\ UNCHANGED sweep_vars

\* a caller asks for output() while run() is not executing
CallOutput ==
    /\ pc \in {"idle", "returned", "raised"}
    /\ ~output_result.called
    /\ output_result' = output(_output)
    /\ UNCHANGED <<entry, initial_config, processes, _config, _output, _stream_output, pc, attempts,
                   command, captured, attempt, exception, stable_only>>
    /\ UNCHANGED sweep_vars

\* --------------------------------------------------- offline_performance
\* one iteration of `for batch_size in batch_sizes`: the parameters are
\* seeded and PerfAnalyzer(perf_config, stream_output=True) is evaluated.
\* The call supplies no timeout, so it raises TypeError, which nothing in
\* offline_performance or main handles: the interpreter ends with status 1.
SweepIteration ==
    /\ sweep_pc = "loop"
    /\ batch_index < Len(batch_sizes)
    /\ batch_index' = batch_index + 1
    /\ params' = BuildParams(batch_sizes[batch_index + 1], measurement_window)
    /\ IF PerfAnalyzer__init__(DriverCallArgs) = "constructed"
       THEN /\ _config' = [mode |-> NoneValue, count |-> 0,
                           interval |-> params'.measurement_interval]
            /\ pc' = "idle"
            /\ UNCHANGED <<sweep_pc, exit_status, exception>>
       ELSE /\ sweep_pc' = "crashed"
            /\ exit_status' = 1
            /\ exception' = [type |-> "TypeError", kind |-> "constructor",
                             returncode |-> 0, output |-> <<>>]
            /\ UNCHANGED <<_config, pc>>
    /\ UNCHANGED <<entry, initial_config, processes, _output, _stream_output, attempts, command, captured,
                   attempt, stable_only, output_result, batch_sizes,
                   measurement_window, results, report, saves, shows, scratch>>

\* the loop is over: the rows are sorted, saved and shown, and the call returns
SweepFinish ==
    /\ sweep_pc = "loop"
    /\ batch_index = Len(batch_sizes)
    /\ results' = sort_results(results)
    /\ report' = results'
    /\ saves' = saves + 1
    /\ shows' = shows + 1
    /\ sweep_pc' = "done"
    /\ exit_status' = 0
    /\ UNCHANGED ctl_vars
    /\ UNCHANGED <<entry, initial_config, batch_sizes, measurement_window, params, batch_index,
                   scratch>>

\* update_performance_data(results, batch_size, performance_partial_file):
\* open() raises FileNotFoundError when there is no file; otherwise the lines
\* are read and one row is appended to the list
UpdatePerformanceData ==
    /\ sweep_pc = "update"
    /\ IF scratch.exists
       THEN /\ results' = update_performance_data(results, params.batch_size,
                                                  scratch)
            /\ sweep_pc' = "updated"
            /\ exception' = exception
       ELSE /\ results' = results
            /\ sweep_pc' = "crashed"
            /\ exception' = [type |-> "FileNotFoundError", kind |-> "open",
                             returncode |-> 0, output |-> <<>>]
    /\ UNCHANGED <<entry, initial_config, processes, _config, _output, _stream_output, pc, attempts,
                   command, captured, attempt, stable_only, output_result,
                   batch_sizes, measurement_window, params, batch_index,
                   report, saves, shows, exit_status, scratch>>

\* ------------------------------------------------------------------ Spec
Next ==
    \/ Run
    \/ Invoke
    \/ \E line \in Lines, channel \in Channels : EmitLine(line, channel)
    \/ \E status \in ExitStatuses : ProcessExit(status)
    \/ ProcessTimeout
    \/ CallOutput
    \/ SweepIteration
    \/ SweepFinish
    \/ UpdatePerformanceData

Spec == Init /\ [][Next]_vars

\* the attempt that is waited for ends, by an exit or by the timeout
ProcessEnds == (\E status \in ExitStatuses : ProcessExit(status)) \/ ProcessTimeout

\* run() is executed by a thread that goes on with its loop, and every
\* process that was spawned ends
SpecFair == Spec /\ WF_vars(Invoke) /\ WF_vars(ProcessEnds)


\* ---------------------------------------------------------------- claims
\* this step ends an attempt with an exit status other than 0
AttemptFails == attempt.how = "none" /\ attempt'.how = "exit" /\ attempt'.status # 0

\* this step ends an attempt by the per-attempt timeout
AttemptTimesOut == attempt.how = "none" /\ attempt'.how = "timeout"

\* C1: an attempt that ends with a non-zero exit status and whose captured
\* output holds neither diagnostic makes run() end at once with a failure:
\* no invocation follows and no parameter of the configuration is changed.
C1_FatalFailureEndsRun ==
    [][(AttemptFails /\ ~UnstableCondition(attempt'.text))
         => /\ pc' = "raised"
            /\ exception'.type = "ModelNavigatorException"
            /\ exception'.kind = "process_failed"
            /\ _config' = _config]_vars

\* C2: an attempt that ends with a non-zero exit status and whose captured
\* output holds one of the two diagnostics, at any position, is retried with
\* an adapted parameter: measurement-request-count plus 50 when the mode is
\* unset or count_windows, measurement-interval plus 2000 otherwise; and no
\* invocation uses the parameters of the invocation before it.
C2_UnstableFailureAdapts ==
    [][/\ (AttemptFails /\ UnstableCondition(attempt'.text))
            => /\ ~(pc' = "raised" /\ exception'.kind = "process_failed")
               /\ _config'.mode = _config.mode
               /\ IF _config.mode \in {NoneValue, "count_windows"}
                  THEN /\ _config'.count = _config.count + 50
                       /\ _config'.interval = _config.interval
                  ELSE /\ _config'.interval = _config.interval + 2000
                       /\ _config'.count = _config.count
       /\ (pc = "loop" /\ pc' = "wait" /\ attempts >= 1) => command' # command]_vars

\* C3: run() invokes the process at most 10 times, and when the 10th attempt
\* ends with a non-zero exit status and the unstable-measurement condition,
\* run() ends with the ceiling-exhaustion failure; no 11th invocation follows.
C3_CeilingOfTenAttempts ==
    [][/\ attempts' <= 10
       /\ (AttemptFails /\ attempts = 10 /\ UnstableCondition(attempt'.text))
            => /\ pc' = "raised"
               /\ exception'.type = "ModelNavigatorException"
               /\ exception'.kind = "exhausted"]_vars

\* C4: in both capture modes an attempt that runs out of the timeout makes
\* run() end with a failure: it is not retried and no parameter is adapted.
C4_TimeoutIsFatal ==
    [][AttemptTimesOut
         => /\ pc' = "raised"
            /\ _config' = _config]_vars

\* C5: when run() ends with its structured failure, that failure names the
\* cause: it is the ceiling-exhaustion failure exactly when all 10 attempts
\* failed with the unstable-measurement condition, and it is the process
\* failure, carrying the exit status, exactly when some attempt failed
\* without that condition; an unstable failure is not surfaced earlier.
C5_FailureNamesItsCause ==
    (entry = "run" /\ pc = "raised" /\ exception.type = "ModelNavigatorException")
        => /\ exception.kind = "exhausted" <=> (attempts = 10 /\ stable_only)
           /\ exception.kind = "process_failed" <=> ~stable_only
           /\ exception.kind = "process_failed" => exception.returncode = attempt.status

\* C6: when run() returns, the stored output is exactly the text the last,
\* successful process wrote, in both capture modes; nothing of an earlier
\* failed attempt is in it.
C6_OutputIsLastAttemptsText ==
    pc = "returned" => (~_output.none /\ _output.text = attempt.text)

\* C7: whatever the attempts do, run() is left either by returning or by
\* ModelNavigatorException, never by an exception of another type.
C7_OnlyStructuredFailure ==
    (entry = "run" /\ pc = "raised") => exception.type = "ModelNavigatorException"

\* rows in ascending order of batch size
IsAscending(rows) ==
    \A k \in 1..(Len(rows) - 1) : rows[k].batch_size <= rows[k + 1].batch_size

\* the same rows, each as often, in some order
IsPermutation(rows, others) ==
    /\ Len(rows) = Len(others)
    /\ \A k \in 1..Len(rows) :
         Cardinality({j \in 1..Len(rows) : rows[j] = rows[k]})
           = Cardinality({j \in 1..Len(others) : others[j] = rows[k]})

\* offline_performance is over and no run of the controller ended in a failure
SweepOverWithoutFailedRun ==
    entry = "sweep" /\ sweep_pc # "loop" /\ pc # "raised"

\* C9: when no controller run fails, the report is saved exactly once, after
\* the last batch size, and its rows are the collected rows in ascending
\* order of batch size.
C9_ReportSortedAndSavedOnce ==
    SweepOverWithoutFailedRun
        => /\ saves = 1
           /\ batch_index = Len(batch_sizes)
           /\ IsAscending(report)
           /\ IsPermutation(report, results)

\* C10: the sweep takes the batch sizes in the given order, one controller
\* run per list element; when no run fails it ends with exit status 0 and
\* one row per requested list element, in the order of the list until sorted.
C10_OneRowPerBatchSize ==
    SweepOverWithoutFailedRun
        => /\ exit_status = 0
           /\ Len(results) = Len(batch_sizes)
           /\ \A k \in 1..Len(batch_sizes) :
                \E j \in 1..Len(results) : results[j].batch_size = batch_sizes[k]

\* ------------------------------------------------- the metrics file, claims
\* a call of update_performance_data returns
UpdateReturns == sweep_pc = "update" /\ sweep_pc' = "updated"

\* the cell of the last line of the file under the name at position j
LastCell(file, j) == file.rows[Len(file.rows)][j]

\* the integer of the last line's cell under a name, 0 when the header does
\* not have the name
LastInteger(file, name) ==
    IF \E j \in 1..Len(file.header) : file.header[j] = name
    THEN int(LastCell(file, CHOOSE j \in 1..Len(file.header) :
                                 file.header[j] = name))
    ELSE 0

\* the sum of the eight latency components of the last line
LastLatencySum(file) ==
    LastInteger(file, "Client Send")
    + LastInteger(file, "Network+Server Send/Recv")
    + LastInteger(file, "Server Queue")
    + LastInteger(file, "Server Compute")
    + LastInteger(file, "Server Compute Input")
    + LastInteger(file, "Server Compute Infer")
    + LastInteger(file, "Server Compute Output")
    + LastInteger(file, "Client Recv")

\* C11: for a file of N >= 1 sample rows, update_performance_data appends one
\* row that carries the batch size asked for, under every name of the header
\* the cell of the last line and nothing of an earlier line, and an
\* "avg latency" computed from the last line.
C11_RowIsLastSample ==
    [][(UpdateReturns /\ Len(scratch.rows) >= 1) =>
          /\ Len(results') = Len(results) + 1
          /\ SubSeq(results', 1, Len(results)) = results
          /\ LET row == results'[Len(results')] IN
                /\ DOMAIN row = {"batch_size", "avg latency"}
                       \cup {scratch.header[j] : j \in 1..Len(scratch.header)}
                /\ row["batch_size"] = params.batch_size
                /\ \A j \in 1..Len(scratch.header) :
                       row[scratch.header[j]] = LastCell(scratch, j)
                /\ row["avg latency"] = LastLatencySum(scratch)]_vars

C11_Witness ==
    /\ sweep_pc = "updated"
    /\ Len(scratch.rows) = 2
    /\ Len(scratch.header) = 2
    /\ scratch.rows[1][1] # scratch.rows[2][1]
    /\ scratch.rows[1][2] # scratch.rows[2][2]
    /\ Len(results) = 2
    /\ results[2][scratch.header[1]] = scratch.rows[2][1]

\* C12: a metrics file that is missing or holds no sample row is fatal: the
\* call does not return, and no row without the metric columns and the
\* "avg latency" is ever in the results.
C12_NoRowWithoutMetrics ==
    entry = "update" =>
        /\ (Len(scratch.rows) = 0 /\ sweep_pc # "update") => sweep_pc = "crashed"
        /\ \A k \in 1..Len(results) : "avg latency" \in DOMAIN results[k]

\* C13: calculate_average_latency is the sum of the integers under the eight
\* latency components, an absent one counting as zero and every other column
\* ignored: "Client Send" 10 and "Server Queue" 5 give 15.
C13_AverageIsSumOfComponents ==
    (sweep_pc = "updated" /\ Len(scratch.rows) >= 1) =>
        /\ results[Len(results)]["avg latency"] = LastLatencySum(scratch)
        /\ calculate_average_latency(DictReader(scratch)[Len(scratch.rows)])
             = LastLatencySum(scratch)

C13_Witness ==
    /\ sweep_pc = "updated"
    /\ scratch.header = CsvColumns
    /\ Len(scratch.rows) = 1
    /\ scratch.rows[1] = << <<1, 0>>, <<5>>, <<1, 0>> >>
    /\ results[Len(results)]["avg latency"] = 15

\* ------------------------------------------- adaptation and processes, claims
\* C14: within one run(), the invocation made after k failed attempts uses
\* the adapted parameter at its initial value plus k times its delta (the
\* window plus 2000 k in time-window mode, the request count plus 50 k when
\* the mode is unset or count_windows), and the mode and the parameter of the
\* other mode as they were handed in.
C14_AdaptationIsLinear ==
    (entry = "run" /\ pc = "wait") =>
        /\ command.mode = initial_config.mode
        /\ IF initial_config.mode \in {NoneValue, "count_windows"}
           THEN /\ command.count
                     = initial_config.count + COUNT_INTERVAL_DELTA * (attempts - 1)
                /\ command.interval = initial_config.interval
           ELSE /\ command.interval
                     = initial_config.interval + TIME_INTERVAL_DELTA * (attempts - 1)
                /\ command.count = initial_config.count

\* two failures with the unstable condition in time-window mode: the third
\* invocation uses the initial window plus 4000
C14_Witness ==
    /\ entry = "run"
    /\ pc = "wait"
    /\ attempts = 3
    /\ stable_only
    /\ initial_config.mode = "time_windows"
    /\ command.interval = initial_config.interval + 4000

\* C19: at most one process spawned by the controller is running at any
\* time: an attempt starts only when no process of an earlier attempt is
\* running, an attempt that hits the timeout leaves no process behind, and
\* no process is running once run() has ended.
C19_AtMostOneProcess ==
    /\ processes \in {0, 1}
    /\ processes = 1 <=> pc = "wait"

C19_Witness ==
    /\ pc = "raised"
    /\ attempt.how = "timeout"
    /\ attempts >= 2
    /\ processes = 0

\* --------------------------------------------- capture modes and output()
\* an attempt ends: the process has exited or has run out of the timeout
AttemptEnds == pc = "wait" /\ pc' # "wait"

\* what run() does under buffered capture when an attempt ends (the try
\* statement of run() with check_output): position, configuration and the
\* kind of the failure
BufferedHandling(config, made, how, status, text) ==
    IF how = "timeout"
    THEN <<"raised", config, "timeout">>
    ELSE IF status = 0
    THEN <<"returned", config, "none">>
    ELSE IF ~_faild_with_measruement_inverval(text)
    THEN <<"raised", config, "process_failed">>
    ELSE IF made < MAX_INTERVAL_CHANGES
    THEN <<"loop", AdaptConfig(config), "none">>
    ELSE <<"raised", AdaptConfig(config), "exhausted">>

\* C15: for the same parameters and the same outcomes of the attempts, run()
\* does the same under streamed and under buffered capture: whenever an
\* attempt ends, run() goes on, adapts and fails as buffered capture does for
\* that exit status or timeout and that text of the attempt, and a run that
\* returns leaves the text of its last attempt as the output.
C15_CaptureModesAgree ==
    [][AttemptEnds =>
          /\ <<pc', _config', exception'.kind>>
               = BufferedHandling(_config, attempts, attempt'.how,
                                  attempt'.status, attempt'.text)
          /\ pc' = "returned" => _output'.text = attempt'.text]_vars

\* every run() that was entered ends
RunTerminates ==
    (entry = "run" /\ pc \in {"loop", "wait"}) ~> (pc \in {"returned", "raised"})

\* C18: when every process that is invoked ends, every run() ends, returned
\* or raised; and a run() all of whose attempts failed with the unstable
\* condition in their text ends with the exhaustion failure.
C18_RunEndsAndExhausts ==
    /\ RunTerminates
    /\ []((entry = "run" /\ pc \in {"returned", "raised"} /\ stable_only) =>
             (pc = "raised" /\ exception.kind = "exhausted"))

\* C20: output() raises exactly when no run() of the instance has returned;
\* after a run() that returned it gives the text that was captured, the
\* empty text included, and after a run() that raised it gives no text.
C20_OutputOnlyAfterSuccess ==
    [][(~output_result.called /\ output_result'.called) =>
          /\ output_result'.raised <=> pc # "returned"
          /\ pc = "returned" => output_result'.text = _output.text]_vars

====
